---- MODULE Spec2Model ----
(***************************************************************************)
(* Model of the AMQP log driver with broker failover                       *)
(* (daemon/logger/amqp/amqp.go, the amqpLogger with an amqpConnection).    *)
(*                                                                         *)
(* Strings are sequences of characters, Go indices are kept 0-based (the   *)
(* broker cursor runs over 0 .. len-1), a pointer is an index into the     *)
(* heap `conns` and the nil pointer is 0.                                  *)
(***************************************************************************)
EXTENDS Integers, Sequences, FiniteSets, TLC

\* ------------------------------------------------------------------ bounds
MaxBrokers == 2      \* longest broker list of amqp-url
MaxCalls == 3        \* Log and Close calls made on one driver

\* ------------------------------------------------------------ input spaces
\* Log lines: empty, whitespace only, plain, and padded on both sides.
Lines == {<<>>, <<" ">>, <<"a">>, <<" ", "a", " ">>}
Schemes == {"amqp", "amqps"}
CreatedYears == {2015, 10000}
ConnectSteps == <<"channel", "exchange", "queue", "bind">>
FailPoints == {"none", "channel", "exchange", "queue", "bind"}

VARIABLES
    brokerURLs,   \* the broker list: the scheme of each URL of amqp-url (one scheme per list)
    confirm,      \* ctx.Config["amqp-confirm"] == "true"
    created,      \* year of amqpFields.Created
    up,           \* endpoints (0-based) that accept a dial right now
    driver,       \* "none" before New, "ok" once New returned a logger, "failed" when New returned an error
    conns,        \* heap: every transport a dial has produced, with its channel and its amqpConnection fields
    connection,   \* amqpLogger.connection: index into conns, 0 is nil
    pc,           \* the caller: "idle", "blocked" (inside a call that cannot return), "panicked"
    lastOp,       \* the last call made: "none", "New", "Log", "Close"
    lastLine,     \* msg.Line of the last Log call
    lastErr,      \* what the last call returned ("nil" is success, "pending" while it has not returned)
    trace,        \* the network operations and reconnects of the last call, in order
    ncalls,       \* the number of Log and Close calls made so far
    closeCalled,  \* Close has been called
    published,    \* the calls whose message a Publish accepted, in the order of acceptance
    race          \* concurrent use: where each of two goroutines stands inside Log, and what has raced

vars == <<brokerURLs, confirm, created, up, driver, conns, connection, pc,
          lastOp, lastLine, lastErr, trace, ncalls, closeCalled, published, race>>

config == <<brokerURLs, confirm, created>>

\* --------------------------------------------------------------- bytes.TrimSpace
IsSpace(ch) == ch = " "

RECURSIVE TrimLeft(_)
TrimLeft(s) == IF s # <<>> /\ IsSpace(Head(s)) THEN TrimLeft(Tail(s)) ELSE s

RECURSIVE TrimRight(_)
TrimRight(s) ==
    IF s # <<>> /\ IsSpace(s[Len(s)]) THEN TrimRight(SubSeq(s, 1, Len(s) - 1)) ELSE s

TrimSpace(s) == TrimRight(TrimLeft(s))

\* ------------------------------------------------------------------ json.Marshal
\* time.Time.MarshalJSON refuses a year outside [0, 9999]; every other field
\* of amqpMessage is a string or time.Now().
MarshalFails(year) == year < 0 \/ year > 9999

\* --------------------------------------------------------------------- handles
\* A Publish is accepted when the channel and its transport are open on the
\* driver's side and the broker still holds the connection.
PublishAccepted(h) == h.c = "open" /\ h.conn = "open" /\ h.alive

\* amqp.Channel.Close / amqp.Connection.Close on one heap entry.  Closing a
\* closed handle returns an error that Close drops.  The broker holds no
\* connection whose transport the driver has closed.
CloseChannel(h) == [h EXCEPT !.c = "closed", !.cCloses = @ + 1]
CloseTransport(h) == [h EXCEPT !.conn = "closed", !.connCloses = @ + 1, !.alive = FALSE]

\* Faulty variant of Close: the error of closing a closed transport is
\* returned (`return s.conn.Close()`).
Close_ReturnsCloseError(cs, k) ==
    IF k = 0
    THEN [conns |-> cs, err |-> "nil", ops |-> <<>>]
    ELSE [conns |-> [cs EXCEPT ![k] = CloseTransport(CloseChannel(@))],
          err |-> IF cs[k].conn = "closed" THEN "closed" ELSE "nil",
          ops |-> <<[op |-> "close_c", on |-> k], [op |-> "close_conn", on |-> k]>>]

\* amqpLogger.Close as a function of the heap: the new heap, the returned
\* error and the operations issued.
Close(cs, k) ==
    IF k = 0
    THEN [conns |-> cs, err |-> "nil", ops |-> <<>>]
    ELSE [conns |-> [cs EXCEPT ![k] = CloseTransport(CloseChannel(@))],
          err |-> "nil",
          ops |-> <<[op |-> "close_c", on |-> k], [op |-> "close_conn", on |-> k]>>]

\* --------------------------------------------------------------------- connect
\* The endpoint connect dials: DialTLS goes to connectURLs[broker], Dial to
\* connectURLs[0].
DialTarget(broker) == IF brokerURLs[1] = "amqps" THEN broker ELSE 0

StepIndex(step) == CHOOSE i \in 1..Len(ConnectSteps) : ConnectSteps[i] = step

\* Faulty variant of StepsRun: an error is logged and the next step runs.
StepsRun_ErrorsIgnored(failAt) == ConnectSteps

\* The steps connect runs after the dial when step failAt fails.
StepsRun(failAt) ==
    IF failAt = "none" THEN ConnectSteps ELSE SubSeq(ConnectSteps, 1, StepIndex(failAt))

StepOps(failAt, k) == [i \in 1..Len(StepsRun(failAt)) |-> [op |-> StepsRun(failAt)[i], on |-> k]]

\* connect(ctx, broker): dial, channel, exchange, queue, bind.  A failure
\* returns (nil, err) at once; the transport a successful dial opened is then
\* left as it is.  conf is never assigned, so the connection holds a nil
\* confirmation channel.
connect(cs, broker, failAt) ==
    LET target == DialTarget(broker)
        k == Len(cs) + 1
        dial == [op |-> "dial", ep |-> target]
        h == [ep |-> target, conn |-> "open",
              c |-> IF failAt = "channel" THEN "none" ELSE "open",
              connCloses |-> 0, cCloses |-> 0, alive |-> TRUE,
              built |-> failAt = "none", broker |-> broker, conf |-> "nil"]
    IN IF target \notin up
       THEN [conns |-> cs, connection |-> 0, err |-> "dial", ops |-> <<dial>>]
       ELSE [conns |-> Append(cs, h),
             connection |-> IF failAt = "none" THEN k ELSE 0,
             err |-> IF failAt = "none" THEN "nil" ELSE failAt,
             ops |-> <<dial>> \o StepOps(failAt, k)]

\* ------------------------------------------------------------------- reconnect
\* Faulty variant of reconnectStore: what connect returned is stored whatever
\* its error, nil included.
reconnectStore_StoresAlways(k, closeOps, r) ==
    [conns |-> r.conns,
     connection |-> r.connection,
     err |-> r.err,
     ops |-> <<[op |-> "reconnect", on |-> k, ok |-> r.err = "nil"]>> \o closeOps \o r.ops]

\* Faulty variant of reconnectStore: the connection connect returned is dropped.
reconnectStore_KeepsOld(k, closeOps, r) ==
    [conns |-> r.conns,
     connection |-> k,
     err |-> r.err,
     ops |-> <<[op |-> "reconnect", on |-> k, ok |-> r.err = "nil"]>> \o closeOps \o r.ops]

\* Faulty variant of NextBroker: the wrap test is off by one.
NextBroker_NoWrapCheck(broker, n) == IF n > broker THEN broker + 1 ELSE 0

\* Faulty variant of NextBroker: the cursor is never taken back to the start.
NextBroker_NeverWraps(broker, n) == broker + 1

\* The cursor after the one at `broker` in a list of n brokers.
NextBroker(broker, n) == IF n > broker + 1 THEN broker + 1 ELSE 0

\* reconnect(s), second half: connection, err := connect(s.ctx, broker);
\* s.connection is overwritten on success only.
reconnectStore(k, closeOps, r) ==
    [conns |-> r.conns,
     connection |-> IF r.err = "nil" THEN r.connection ELSE k,
     err |-> r.err,
     ops |-> <<[op |-> "reconnect", on |-> k, ok |-> r.err = "nil"]>> \o closeOps \o r.ops]

\* reconnect(s), first half after s.Close(): the cursor of the connection
\* object s holds is advanced in place, then connect is called on it.
reconnectAdvance(k, closed, next, failAt) ==
    reconnectStore(k, closed.ops,
                   connect([closed.conns EXCEPT ![k].broker = next], next, failAt))

\* reconnect(s).  With s.connection nil, Close does nothing and the read of
\* s.connection.brokerURLs is a nil dereference.
reconnect(cs, k, failAt) ==
    IF k = 0
    THEN [conns |-> cs, connection |-> 0, err |-> "panic",
          ops |-> <<[op |-> "reconnect", on |-> 0, ok |-> FALSE]>>]
    ELSE reconnectAdvance(k, Close(cs, k), NextBroker(cs[k].broker, Len(brokerURLs)), failAt)

\* ------------------------------------------------------------- confirmOne
\* The deferred confirmation wait: a receive from the confirmation channel.
\* A nil channel never delivers, so the receive never returns.
confirmOneBlocks(conf) == conf = "nil"

\* ------------------------------------------------------------------------- Log
\* The running state of one Log call: the heap, s.connection, the value to
\* return, whether the call has reached a return statement, the deferred
\* confirmation wait (its argument is evaluated at the defer statement), and
\* what the call has done on the network.
LogStart ==
    [conns |-> conns, connection |-> connection, err |-> "nil", returned |-> FALSE,
     deferred |-> "none", ops |-> <<>>, pubs |-> <<>>]

\* err = reconnect(s); if err != nil { return err }
LogAfterReconnect(st, r) ==
    [st EXCEPT !.conns = r.conns, !.connection = r.connection,
               !.err = r.err, !.returned = r.err # "nil", !.ops = @ \o r.ops]

\* if s.connection == nil { err = reconnect(s); if err != nil { return err } }
LogEnsureConnection(st, failAt) ==
    IF st.connection # 0 THEN st
    ELSE LogAfterReconnect(st, reconnect(st.conns, st.connection, failAt))

\* Faulty variant of LogPublishesLine: no test for the empty line.
LogPublishesLine_Always(short) == TRUE

\* if string(short) != "" { ... }
LogPublishesLine(short) == short # <<>>

\* Faulty variant of LogSerialize: the Marshal error is not returned.
LogSerialize_ErrorDropped(st) == st

\* messagejson, err := json.Marshal(m); if err != nil { return err }
LogSerialize(st) ==
    IF MarshalFails(created) THEN [st EXCEPT !.err = "marshal", !.returned = TRUE] ELSE st

\* if amqp-confirm == "true" && s.connection != nil { defer confirmOne(s.connection.conf) }
LogDeferConfirm(st) ==
    IF confirm /\ st.connection # 0
    THEN [st EXCEPT !.deferred = st.conns[st.connection].conf]
    ELSE st

\* Faulty variant of LogPublish: the message is sent twice.
LogPublish_Twice(st, short) ==
    [st EXCEPT !.err = IF PublishAccepted(st.conns[st.connection]) THEN "nil" ELSE "publish",
               !.ops = @ \o [i \in 1..2 |->
                               [op |-> "publish", on |-> st.connection,
                                ok |-> PublishAccepted(st.conns[st.connection]),
                                message |-> short]],
               !.pubs = IF PublishAccepted(st.conns[st.connection])
                        THEN @ \o <<short, short>> ELSE @]

\* err = s.connection.c.Publish(...)
LogPublish(st, short) ==
    [st EXCEPT !.err = IF PublishAccepted(st.conns[st.connection]) THEN "nil" ELSE "publish",
               !.ops = Append(@, [op |-> "publish", on |-> st.connection,
                                  ok |-> PublishAccepted(st.conns[st.connection]),
                                  message |-> short]),
               !.pubs = IF PublishAccepted(st.conns[st.connection])
                        THEN Append(@, short) ELSE @]

\* Faulty variant of LogOnPublishError: the reconnect runs whatever Publish
\* returned.
LogOnPublishError_Always(st, failAt) ==
    LogAfterReconnect(st, reconnect(st.conns, st.connection, failAt))

\* if err != nil { err = reconnect(s); if err != nil { return err } }
LogOnPublishError(st, failAt) ==
    IF st.err = "nil" THEN st
    ELSE LogAfterReconnect(st, reconnect(st.conns, st.connection, failAt))

\* The statements after the Marshal, when it did not return.
LogSend(st, short, failAt) ==
    IF st.returned THEN st
    ELSE LogOnPublishError(LogPublish(LogDeferConfirm(st), short), failAt)

\* The block under `if string(short) != ""`.
LogLine(st, short, failAt) ==
    IF st.returned \/ ~LogPublishesLine(short) THEN st
    ELSE LogSend(LogSerialize(st), short, failAt)

\* The end of Log: a return that is not an error return is `return nil`.
LogReturn(st) ==
    [st EXCEPT !.err = IF st.returned THEN st.err ELSE "nil", !.returned = TRUE]

\* Log(msg) up to its return statement.
Log(line, failAt) ==
    LogReturn(LogLine(LogEnsureConnection(LogStart, failAt), TrimSpace(line), failAt))

\* ----------------------------------------------------------------------- state
\* The broker lists a driver is configured with: an ordered, non-empty list of
\* URLs, which connect reads as connectURLs and reconnect as
\* s.connection.brokerURLs.
BrokerLists == {[i \in 1..n |-> scheme] : n \in 1..MaxBrokers, scheme \in Schemes}

Endpoints == 0 .. (Len(brokerURLs) - 1)

\* The goroutines that call Log on one logger when the daemon shares it.
Callers == {"A", "B"}

Init ==
    /\ brokerURLs \in BrokerLists
    /\ confirm \in BOOLEAN
    /\ created \in CreatedYears
    /\ up \in SUBSET Endpoints
    /\ driver = "none"
    /\ conns = <<>>
    /\ connection = 0
    /\ pc = "idle"
    /\ lastOp = "none"
    /\ lastLine = <<>>
    /\ lastErr = "nil"
    /\ trace = <<>>
    /\ ncalls = 0
    /\ closeCalled = FALSE
    /\ published = <<>>
    /\ race = [at |-> [t \in Callers |-> [pc |-> "idle", deferred |-> "none", n |-> 0]],
               overlap |-> FALSE, failed |-> FALSE,
               stale |-> {}, moved |-> {}, twice |-> {}]

\* --------------------------------------------------------------------- actions
\* New(ctx): the hostname lookup, then connect(ctx, 0); an error of either
\* returns (nil, err) and no logger exists.
New(hostnameFails, failAt) ==
    /\ driver = "none"
    /\ LET r == IF hostnameFails
                THEN [conns |-> conns, connection |-> 0, err |-> "hostname", ops |-> <<>>]
                ELSE connect(conns, 0, failAt)
       IN /\ conns' = r.conns
          /\ connection' = r.connection
          /\ driver' = IF r.err = "nil" THEN "ok" ELSE "failed"
          /\ lastErr' = r.err
          /\ trace' = r.ops
    /\ lastOp' = "New"
    /\ UNCHANGED <<config, up, pc, lastLine, ncalls, closeCalled, published, race>>

\* What a Log call that ran to its return statement with result r leaves
\* behind.  The deferred confirmOne runs at the return; when it blocks, the
\* call never returns.
LogEffect(r, n) ==
    /\ conns' = r.conns
    /\ connection' = r.connection
    /\ trace' = r.ops
    /\ published' = published \o [i \in 1..Len(r.pubs) |-> n]
    /\ pc' = IF r.err = "panic" THEN "panicked"
             ELSE IF r.deferred # "none" /\ confirmOneBlocks(r.deferred) THEN "blocked"
             ELSE "idle"
    /\ lastErr' = IF r.err # "panic" /\ r.deferred # "none" /\ confirmOneBlocks(r.deferred)
                  THEN "pending" ELSE r.err

\* One Log call of the single caller, from entry to return.
LogCall(line, failAt) ==
    /\ driver = "ok"
    /\ pc = "idle"
    /\ ncalls < MaxCalls
    /\ LogEffect(Log(line, failAt), ncalls + 1)
    /\ lastOp' = "Log"
    /\ lastLine' = line
    /\ ncalls' = ncalls + 1
    /\ UNCHANGED <<config, up, driver, closeCalled, race>>

\* One Close call.
CloseCall ==
    /\ driver = "ok"
    /\ pc = "idle"
    /\ ncalls < MaxCalls
    /\ LET r == Close(conns, connection)
       IN /\ conns' = r.conns
          /\ lastErr' = r.err
          /\ trace' = r.ops
    /\ lastOp' = "Close"
    /\ ncalls' = ncalls + 1
    /\ closeCalled' = TRUE
    /\ UNCHANGED <<config, up, driver, connection, pc, lastLine, published, race>>

\* The environment: a broker endpoint goes away, and every connection it
\* held is dead from then on; or it comes back and accepts dials again.
BrokerDown(e) ==
    /\ e \in up
    /\ up' = up \ {e}
    /\ conns' = [i \in 1..Len(conns) |->
                   IF conns[i].ep = e THEN [conns[i] EXCEPT !.alive = FALSE] ELSE conns[i]]
    /\ UNCHANGED <<config, driver, connection, pc, lastOp, lastLine, lastErr,
                   trace, ncalls, closeCalled, published, race>>

BrokerUp(e) ==
    /\ e \in Endpoints \ up
    /\ up' = up \cup {e}
    /\ UNCHANGED <<config, driver, conns, connection, pc, lastOp, lastLine, lastErr,
                   trace, ncalls, closeCalled, published, race>>

Next ==
    \/ \E hostnameFails \in BOOLEAN, failAt \in FailPoints : New(hostnameFails, failAt)
    \/ \E line \in Lines, failAt \in FailPoints : LogCall(line, failAt)
    \/ CloseCall
    \/ \E e \in Endpoints : BrokerDown(e)
    \/ \E e \in Endpoints : BrokerUp(e)

Spec == Init /\ [][Next]_vars

\* ================================================================= properties
\* What the formulas below read off a state.
TraceOps(name) == {i \in 1..Len(trace) : trace[i].op = name}

NonBlank(line) == \E i \in 1..Len(line) : line[i] # " "

Spaces(n) == [i \in 1..n |-> " "]

\* m is line without its leading and trailing spaces.
IsTrimOf(m, line) ==
    /\ \E i, j \in 0..Len(line) : line = Spaces(i) \o m \o Spaces(j)
    /\ m # <<>> => (m[1] # " " /\ m[Len(m)] # " ")

Returned == pc = "idle" /\ lastErr # "pending"

ReturnedError == Returned /\ lastErr # "nil"

\* The Log or Close call a step makes.
IsLogStep == ncalls' = ncalls + 1 /\ lastOp' = "Log"

IsCloseStep == ncalls' = ncalls + 1 /\ lastOp' = "Close"

\* C1: in a Log call (on a driver that has not been closed, confirmation
\* off) whose first publish fails, reconnect runs exactly once and the same message is
\* published exactly once more, on the new connection; when the reconnect or
\* that second publish fails, Log returns an error.  No Log call reconnects
\* more than once or publishes more than twice.
C1_OneFailoverOneRetry ==
    (lastOp = "Log" /\ ~closeCalled /\ ~confirm) =>
        LET pubs == TraceOps("publish")
            recs == TraceOps("reconnect")
        IN /\ Cardinality(recs) <= 1
           /\ Cardinality(pubs) <= 2
           /\ \A i \in pubs :
                ((\A j \in pubs : i <= j) /\ ~trace[i].ok) =>
                    /\ Cardinality(recs) = 1
                    /\ \A r \in recs :
                         IF trace[r].ok
                         THEN /\ Cardinality(pubs) = 2
                              /\ \E j \in pubs :
                                   /\ j > r
                                   /\ trace[j].message = trace[i].message
                                   /\ trace[j].on = connection
                                   /\ ~trace[j].ok => ReturnedError
                         ELSE ReturnedError

\* C2: a Log call (on a driver that has not been closed) with a non-blank
\* line that returns nil had exactly one message carrying the trimmed line
\* accepted by a publish during the call.
C2_SuccessMeansPublished ==
    (lastOp = "Log" /\ ~closeCalled /\ NonBlank(lastLine) /\ Returned /\ lastErr = "nil") =>
        Cardinality({i \in TraceOps("publish") :
                        trace[i].ok /\ IsTrimOf(trace[i].message, lastLine)}) = 1

\* C3: a Log call with an empty or whitespace-only line returns nil and does
\* nothing on the network: no publish, dial, close or confirmation wait.
C3_BlankLineIsNoOp ==
    (lastOp = "Log" /\ ~NonBlank(lastLine)) =>
        /\ Returned
        /\ lastErr = "nil"
        /\ trace = <<>>

C3_Witness ==
    /\ lastOp = "Log"
    /\ lastLine = <<" ">>
    /\ confirm
    /\ ~PublishAccepted(conns[connection])
    /\ ncalls = 2

\* C4: once Close has been called, a Log call with a non-blank line fails
\* with the driver-closed error and neither dials, reconnects nor publishes.
C4_LogAfterCloseFailsFast ==
    (closeCalled /\ lastOp = "Log" /\ NonBlank(lastLine)) =>
        /\ Returned
        /\ lastErr = "closed"
        /\ TraceOps("dial") = {}
        /\ TraceOps("reconnect") = {}
        /\ TraceOps("publish") = {}

\* C5: every Close call returns nil and does not fault, whatever the state
\* of the handles, and a Close that follows a Close leaves the connection
\* field and every handle as the first left them.
HandleState == [i \in 1..Len(conns) |-> [conn |-> conns[i].conn, c |-> conns[i].c,
                                          alive |-> conns[i].alive, broker |-> conns[i].broker,
                                          conf |-> conns[i].conf]]

C5_CloseIdempotent ==
    [][IsCloseStep =>
          /\ lastErr' = "nil"
          /\ pc' = "idle"
          /\ connection' = connection
          /\ lastOp = "Close" => HandleState' = HandleState]_vars

C5_Witness ==
    /\ lastOp = "Close"
    /\ ncalls = 3
    /\ conns[connection].connCloses >= 2
    /\ conns[connection].cCloses >= 2

\* C6: with confirmation enabled and no confirmation ever sent, a Log call
\* with a non-blank line returns, and returns an error.
C6_ConfirmWaitReturnsError ==
    (confirm /\ lastOp = "Log" /\ NonBlank(lastLine)) => ReturnedError

\* C7: a reconnect started with the cursor at i leaves it at (i+1) mod
\* len(brokerURLs), whether its connect succeeds or fails; with one broker
\* the cursor stays 0 and endpoint 0 is dialled again.
C7_CursorAdvancesModLen ==
    [][(IsLogStep /\ \E i \in 1..Len(trace') : trace'[i].op = "reconnect") =>
          /\ conns'[connection'].broker = (conns[connection].broker + 1) % Len(brokerURLs)
          /\ Len(brokerURLs) = 1 =>
                /\ conns'[connection'].broker = 0
                /\ \E i \in 1..Len(trace') : trace'[i].op = "dial" /\ trace'[i].ep = 0]_vars

C7_Witness ==
    /\ lastOp = "Log"
    /\ TraceOps("reconnect") # {}
    /\ Len(brokerURLs) = 2
    /\ conns[connection].broker = 0
    /\ lastErr = "queue"

\* C8: with the broker list [B1, B2], B1 unreachable and B2 reachable, New
\* yields a driver, and the first call Log("a") on it ends connected to B2
\* after one failover, with the one message published to B2 and nil returned.
C8_Scenario == Len(brokerURLs) = 2 /\ up = {1}

C8_FailoverOnFirstLog ==
    [][/\ (C8_Scenario /\ lastOp = "none" /\ lastOp' = "New" /\ lastErr' # "hostname")
            => driver' = "ok"
       /\ (C8_Scenario /\ IsLogStep /\ ncalls = 0 /\ lastLine' = <<"a">>
             /\ lastErr' \notin {"channel", "exchange", "queue", "bind"})
            => /\ pc' = "idle"
               /\ lastErr' = "nil"
               /\ conns'[connection'].ep = 1
               /\ Cardinality({i \in 1..Len(trace') : trace'[i].op = "reconnect"}) = 1
               /\ published' = <<1>>
               /\ \E i \in 1..Len(trace') :
                    /\ trace'[i].op = "publish"
                    /\ trace'[i].ok
                    /\ trace'[i].message = <<"a">>
                    /\ conns'[trace'[i].on].ep = 1]_vars

\* C9: the calls whose message was published appear in call order, each at
\* most once, and what a call publishes is its own trimmed non-blank line.
C9_PublishedInCallOrder ==
    [][\/ published' = published
       \/ /\ ncalls' = ncalls + 1
          /\ published' = Append(published, ncalls')
          /\ \A i \in 1..Len(published) : published[i] < ncalls'
          /\ NonBlank(lastLine')
          /\ \A i \in 1..Len(trace') :
               (trace'[i].op = "publish" /\ trace'[i].ok)
                   => IsTrimOf(trace'[i].message, lastLine')]_vars

C9_Witness ==
    /\ published = <<1, 3>>
    /\ connection = 2
    /\ lastLine = <<" ", "a", " ">>

\* C10: when the serialization of the envelope fails, Log returns that error,
\* publishes nothing and does not reconnect; the heap of connections, the
\* connection field and the cursor are as before the call.
C10_MarshalErrorReturned ==
    [][(IsLogStep /\ NonBlank(lastLine') /\ MarshalFails(created)) =>
          /\ pc' = "idle"
          /\ lastErr' = "marshal"
          /\ trace' = <<>>
          /\ conns' = conns
          /\ connection' = connection
          /\ published' = published]_vars

C10_Witness ==
    /\ lastOp = "Log"
    /\ lastErr = "marshal"
    /\ confirm
    /\ NonBlank(lastLine)

\* C11: a connect(broker) that succeeds has dialled the endpoint at index
\* broker, whatever the scheme: the connection New returns is to endpoint 0,
\* and after a successful reconnect the connection is to the endpoint at the
\* cursor.
C11_ConnectedToCursor ==
    /\ (lastOp = "New" /\ driver = "ok") => conns[connection].ep = conns[connection].broker
    /\ (lastOp = "Log" /\ \E i \in TraceOps("reconnect") : trace[i].ok)
           => conns[connection].ep = conns[connection].broker

\* C12: at most one transport is open at any moment, and a connect that
\* failed after its dial has left no open transport.
OpenTransports == {i \in 1..Len(conns) : conns[i].conn = "open"}

C12_OneOpenTransport ==
    /\ Cardinality(OpenTransports) <= 1
    /\ \A i \in OpenTransports : conns[i].built

\* C13: connect runs dial, channel, exchange, queue, bind in this order and
\* stops at the first step that fails, returning its error and no connection;
\* New and reconnect store no connection of a failed connect.
ConnectErrors == {"dial", "channel", "exchange", "queue", "bind"}

OpsUpTo(err) ==
    CASE err = "dial" -> <<"dial">>
      [] err = "channel" -> <<"dial", "channel">>
      [] err = "exchange" -> <<"dial", "channel", "exchange">>
      [] err = "queue" -> <<"dial", "channel", "exchange", "queue">>
      [] OTHER -> <<"dial", "channel", "exchange", "queue", "bind">>

\* The operations of the last call from its dial on.
ConnectOps ==
    LET from == {i \in 1..Len(trace) : \E j \in TraceOps("dial") : j <= i}
    IN [i \in 1..Cardinality(from) |-> trace[Len(trace) - Cardinality(from) + i].op]

C13_ConnectStopsAtFirstError ==
    /\ TraceOps("dial") # {} =>
          IF lastErr = "pending"
          THEN \E err \in ConnectErrors \cup {"nil"} : ConnectOps = OpsUpTo(err)
          ELSE ConnectOps = OpsUpTo(lastErr)
    /\ lastErr \in ConnectErrors =>
          /\ lastOp = "New" => (driver = "failed" /\ connection = 0)
          /\ lastOp = "Log" => \A i \in TraceOps("channel") : trace[i].on # connection
    /\ connection # 0 => conns[connection].built

C13_Witness ==
    /\ lastOp = "Log"
    /\ lastErr = "exchange"
    /\ Len(conns) = 2
    /\ connection = 1

\* C14: on a driver that Close was not called on, a Log call whose reconnect
\* fails returns the error, and no Log call publishes on a channel the driver
\* has closed: after a failed reconnect the next call reconnects first.
C14_NoPublishOnClosedChannel ==
    [][(IsLogStep /\ ~closeCalled) =>
          /\ (\E i \in 1..Len(trace') : trace'[i].op = "reconnect" /\ ~trace'[i].ok)
                => lastErr' \in ConnectErrors \cup {"pending"}
          /\ \A i \in 1..Len(trace') :
                trace'[i].op = "publish" => conns[trace'[i].on].c = "open"]_vars

\* C15: with confirmation enabled, every connection a successful connect
\* built holds a confirmation channel (its channel was put in confirm mode).
C15_ConfirmChannelSet ==
    confirm => \A i \in 1..Len(conns) : conns[i].built => conns[i].conf # "nil"

\* C16: the broker cursor of every connection object is an index of the
\* broker list.
C16_CursorInRange ==
    \A i \in 1..Len(conns) :
        conns[i].built => (0 <= conns[i].broker /\ conns[i].broker < Len(brokerURLs))

C16_Witness ==
    /\ lastOp = "Log"
    /\ ncalls = 3
    /\ Len(brokerURLs) = 2
    /\ connection = 1
    /\ conns[connection].broker = 1

\* C18: a Log call with a blank line, one that fails to serialize and one
\* whose publish is accepted leave the heap of connections (handles and
\* cursors), the connection field and the configuration with the metadata
\* as they were; and whenever a call changes the connection field or a
\* cursor, it has run reconnect.
Cursors == [i \in 1..Len(conns) |-> conns[i].broker]

C18_OnlyReconnectMoves ==
    [][/\ (IsLogStep /\ (\/ ~NonBlank(lastLine')
                         \/ MarshalFails(created)
                         \/ \E i \in 1..Len(trace') : trace'[i].op = "publish" /\ trace'[i].ok))
            => (conns' = conns /\ connection' = connection /\ config' = config)
       /\ (connection' # connection /\ lastOp' # "New") \/ (Len(conns') = Len(conns) /\ Cursors' # Cursors)
            => \E i \in 1..Len(trace') : trace'[i].op = "reconnect"]_vars

C18_Witness ==
    /\ lastOp = "Log"
    /\ ncalls = 3
    /\ connection = 2
    /\ \E i \in TraceOps("publish") : trace[i].ok

\* C19: as long as Close has not been called, and at the first Close, no
\* channel and no transport has been closed more than once.
C19_ClosedAtMostOnce ==
    [][~closeCalled =>
          \A i \in 1..Len(conns') : conns'[i].cCloses <= 1 /\ conns'[i].connCloses <= 1]_vars

\* ------------------------------------------------------- the steady caller
\* A caller that keeps logging non-blank lines to brokers that stopped
\* changing before its first call, at least one of them reachable, and
\* reachable brokers accept every step of connect.
SteadyBrokerDown(e) ==
    /\ ncalls = 0
    /\ up \ {e} # {}
    /\ BrokerDown(e)

SteadyBrokerUp(e) ==
    /\ ncalls = 0
    /\ BrokerUp(e)

SteadyLog(line) ==
    /\ NonBlank(line)
    /\ up # {}
    /\ LogCall(line, "none")

SteadyNext ==
    \/ \E hostnameFails \in BOOLEAN, failAt \in FailPoints : New(hostnameFails, failAt)
    \/ \E line \in Lines : SteadyLog(line)
    \/ \E e \in Endpoints : SteadyBrokerDown(e)
    \/ \E e \in Endpoints : SteadyBrokerUp(e)

SteadySpec == Init /\ [][SteadyNext]_vars

\* C20: with confirmation off and metadata that serializes, when some
\* endpoint has been reachable during all the Log calls made, all of them
\* with a non-blank line, then once as many calls were made as there are
\* brokers, the driver holds a live connection and a line was published.
C20_PublishesWithinOneCycle ==
    (~confirm /\ ~MarshalFails(created) /\ ncalls >= Len(brokerURLs)) =>
        /\ published # <<>>
        /\ conns[connection].alive

\* ------------------------------------------------------ concurrent callers
\* Log takes no lock, so two goroutines that call it on one logger
\* interleave at every access to s.connection.  The steps of Log and of the
\* reconnect it calls, one shared access each.  race.at is where each
\* goroutine stands; the rest of race records what has happened: a call began
\* inside a call of the other goroutine (overlap), a connect of reconnect
\* failed (failed), the connections a Publish was issued on after the driver
\* closed them (stale), the connections whose cursor was moved (moved) and
\* moved again (twice).  A reachable broker accepts every step of connect
\* here, so that a connect of reconnect fails at its dial or not at all.
ReturnBlocks(c) == c.deferred # "none" /\ confirmOneBlocks(c.deferred)

\* The return of a goroutine in state c: the deferred confirmOne runs first.
AfterReturn(c) ==
    [c EXCEPT !.pc = IF ReturnBlocks(c) THEN "blocked" ELSE "idle", !.deferred = "none"]

\* Log up to the Publish: TrimSpace, the nil test, the Marshal and the defer.
LogEnter(t, line) ==
    /\ driver = "ok"
    /\ race.at[t].pc = "idle"
    /\ ncalls < MaxCalls
    /\ ncalls' = ncalls + 1
    /\ race' = [race EXCEPT
                  !.overlap = @ \/ \E u \in Callers \ {t} : race.at[u].pc # "idle",
                  !.at[t] =
                     IF connection = 0
                     THEN [pc |-> "panicked", deferred |-> "none", n |-> ncalls + 1]
                     ELSE IF LogPublishesLine(TrimSpace(line)) /\ ~MarshalFails(created)
                     THEN [pc |-> "publish",
                           deferred |-> LogDeferConfirm(LogStart).deferred,
                           n |-> ncalls + 1]
                     ELSE [pc |-> "idle", deferred |-> "none", n |-> ncalls + 1]]
    /\ UNCHANGED <<config, up, driver, conns, connection, pc, lastOp, lastLine,
                   lastErr, trace, closeCalled, published>>

\* err = s.connection.c.Publish(...): on the connection s holds now.
LogPublishStep(t) ==
    /\ race.at[t].pc = "publish"
    /\ published' = IF PublishAccepted(conns[connection])
                    THEN Append(published, race.at[t].n) ELSE published
    /\ race' = [race EXCEPT
                  !.stale = IF conns[connection].cCloses > 0 THEN @ \cup {connection} ELSE @,
                  !.at[t] = IF PublishAccepted(conns[connection])
                            THEN AfterReturn(@) ELSE [@ EXCEPT !.pc = "close"]]
    /\ UNCHANGED <<config, up, driver, conns, connection, pc, lastOp, lastLine,
                   lastErr, trace, ncalls, closeCalled>>

\* reconnect: s.Close(), on the connection s holds now.
reconnectClose(t) ==
    /\ race.at[t].pc = "close"
    /\ conns' = Close(conns, connection).conns
    /\ race' = [race EXCEPT !.at[t].pc = "advance"]
    /\ UNCHANGED <<config, up, driver, connection, pc, lastOp, lastLine, lastErr,
                   trace, ncalls, closeCalled, published>>

\* reconnect: the cursor of the connection s holds now moves on.
reconnectNext(t) ==
    /\ race.at[t].pc = "advance"
    /\ conns' = [conns EXCEPT ![connection].broker = NextBroker(@, Len(brokerURLs))]
    /\ race' = [race EXCEPT
                  !.moved = @ \cup {connection},
                  !.twice = IF connection \in race.moved THEN @ \cup {connection} ELSE @,
                  !.at[t].pc = "connect"]
    /\ UNCHANGED <<config, up, driver, connection, pc, lastOp, lastLine, lastErr,
                   trace, ncalls, closeCalled, published>>

\* reconnect: connect(s.ctx, s.connection.broker), the store, and the return
\* of Log.
reconnectConnect(t, failAt) ==
    /\ race.at[t].pc = "connect"
    /\ LET r == reconnectStore(connection, <<>>,
                               connect(conns, conns[connection].broker, failAt))
       IN /\ conns' = r.conns
          /\ connection' = r.connection
          /\ race' = [race EXCEPT !.failed = @ \/ r.err # "nil",
                                  !.at[t] = AfterReturn(@)]
    /\ UNCHANGED <<config, up, driver, pc, lastOp, lastLine, lastErr, trace, ncalls,
                   closeCalled, published>>

ConcNext ==
    \/ \E hostnameFails \in BOOLEAN, failAt \in FailPoints : New(hostnameFails, failAt)
    \/ \E t \in Callers, line \in Lines : LogEnter(t, line)
    \/ \E t \in Callers : LogPublishStep(t)
    \/ \E t \in Callers : reconnectClose(t)
    \/ \E t \in Callers : reconnectNext(t)
    \/ \E t \in Callers : reconnectConnect(t, "none")
    \/ \E e \in Endpoints : BrokerDown(e)
    \/ \E e \in Endpoints : BrokerUp(e)

ConcSpec == Init /\ [][ConcNext]_vars

\* The connections that were closed more than once.
DoubleClosed == {k \in 1..Len(conns) : conns[k].cCloses > 1 \/ conns[k].connCloses > 1}

\* C17: the hazards of two goroutines in Log come from their interleaving:
\* as long as no call began inside a call of the other goroutine and no
\* reconnect failed, no Publish is issued on a connection the driver closed,
\* no connection is closed twice and no connection's cursor is moved twice.
\* (The witness is the interleaving in which all three happen.)
C17_HazardsNeedInterleaving ==
    (~race.overlap /\ ~race.failed) =>
        (race.stale = {} /\ DoubleClosed = {} /\ race.twice = {})

\* With every reconnect successful: a goroutine has published on a
\* connection after the other goroutine's reconnect closed it, the
\* connection was closed by both, and its cursor was moved by both.
C17_Witness ==
    /\ ~race.failed
    /\ \E k \in 1..Len(conns) :
          /\ k \in race.stale
          /\ k \in DoubleClosed
          /\ k \in race.twice

\* C21: a driver that New returned always holds a connection that connect
\* built: the connection field is never nil, so no Log call takes the
\* `s.connection == nil` branch, no reconnect runs on a nil connection and
\* no call panics on a nil dereference.
C21_ConnectionNeverNil ==
    /\ driver = "ok" => (connection \in 1..Len(conns) /\ conns[connection].built)
    /\ driver # "ok" => connection = 0
    /\ pc # "panicked"
    /\ \A i \in TraceOps("reconnect") : trace[i].on # 0

\* A Log call whose reconnect failed has returned, and the driver still
\* holds the connection it had.
C21_Witness ==
    /\ driver = "ok"
    /\ lastOp = "Log"
    /\ \E i \in TraceOps("reconnect") : ~trace[i].ok
    /\ lastErr \in ConnectErrors
    /\ connection # 0

====
